---- MODULE Spec2Model ----
(***************************************************************************)
(* Model of the Elasticsearch v7 adapter of go-libraryofcongress-database  *)
(* (src/elasticsearch_v7.go): the constructor, the bulk-ingestion call     *)
(* Index/indexSource and the query call Query, with the collaborators they *)
(* drive (the esutil bulk indexer, the estransport retry loop and its      *)
(* shared backoff, the countable pagination helper), modelled at the calls *)
(* the adapter makes to them.                                              *)
(***************************************************************************)
EXTENDS Integers, Sequences, FiniteSets, TLC

\* ------------------------------------------------------------------ bounds
MaxSources == 2      \* sources handed to one Index call
MaxRows    == 2      \* rows the sources produce over all Index calls
MaxRuns    == 2      \* Index calls made on the handle
QueueCap   == 2      \* capacity of the writer's queue (the handle's workers)
MaxPage    == 4      \* page numbers asked of Query
MaxPerPage == 10     \* page sizes asked of Query
MaxTotal   == 37     \* total counts the backend reports
MaxHits    == 2      \* hits the backend returns in one response
MaxNumLen  == 2      \* characters of the ?workers= value
NumReqs    == 2      \* logical requests in flight on the handle's client

\* ------------------------------------------------------- program constants
MaxRetries == 5                         \* es.Config.MaxRetries
RetryOnStatus == {502, 503, 504, 429}   \* es.Config.RetryOnStatus
Statuses == {200, 404} \cup RetryOnStatus  \* statuses the backend answers with

RowIds    == {"a", ""}            \* row["id"]; "" is a row without an id
RowLabels == {"l1"}               \* row["label"]

SrcLabel(i) == <<"src", i>>       \* src.Label of the i-th source of a call

VARIABLES
    \* ---- Index call
    pc,            \* position of the Index call
    run,           \* number of the current Index call
    nsrc,          \* len(sources) of the current call
    cur,           \* index of the source being iterated (the range loop)
    produced,      \* rows produced by the sources during this call
    nrows,         \* rows produced by the sources over all calls
    ctxDone,       \* the context passed to Index is cancelled
    created,       \* esutil.NewBulkIndexer returned a writer
    closed,        \* indexer.Close was called on that writer
    queue,         \* items accepted by Add, not yet taken by a worker
    inflight,      \* items held in worker buffers, not yet flushed
    esindex,       \* the documents of the backend index
    stats,         \* indexer.Stats() of the current writer
    succeeded,     \* OnSuccess callbacks of this call's items
    failedLogged,  \* OnFailure log lines of this call's items
    schedFailed,   \* "Failed to schedule" log lines of this call
    signalled,     \* monitor.Signal goroutines dispatched by this call
    statsLogged,   \* the "Stats" line logged by this call, or "none"
    result,        \* what Index returned: "none" while it runs
    errLabel,      \* the source label named by the error returned: << >> or <<label>>
    sigDone,       \* monitor.Signal goroutines of this call that have finished
    \* ---- handle
    query_by,      \* the handle's query-field mode
    \* ---- Query call
    qpc,           \* position of the Query call
    qpage,         \* pg_opts: the page asked for
    qsize,         \* pg_opts.PerPage()
    qreq,          \* the esapi.SearchRequest built, or "none"
    attempts,      \* attempts the transport made for the current request
    lastStatus,    \* what the latest attempt got
    retryLevel,    \* the shared backoff's interval: initial * 1.5^retryLevel
    lastDelay,     \* the level of the interval RetryBackoff last returned, or -1
    qrsp,          \* the response Query decodes, or "none"
    qout,          \* what Query returned, or "none"
    \* ---- NewElasticsearchV7Database call
    npc,           \* position of the constructor call
    nopts,         \* the query parameters of the uri
    nlocal,        \* the constructor's locals after the options are parsed
    ncreateCalls,  \* Indices.Create calls issued by this constructor call
    ncreateRsp,    \* what the Indices.Create call got
    nhandle,       \* the handle returned, nil or not
    nerr,          \* the error returned: "" is nil
    \* ---- requests the client's transport is performing
    treq           \* per request: position, retries made, and inside
                   \* NextBackOff the level of the interval it returns

ivars == <<pc, run, nsrc, cur, produced, nrows, ctxDone, created, closed, queue,
           inflight, esindex, stats, succeeded, failedLogged, schedFailed,
           signalled, statsLogged, result, errLabel, sigDone>>

qvars == <<query_by, qpc, qpage, qsize, qreq, attempts, lastStatus, retryLevel,
           lastDelay, qrsp, qout>>

nvars == <<npc, nopts, nlocal, ncreateCalls, ncreateRsp, nhandle, nerr>>

\* The Query state other than the shared backoff.
qcallvars == <<query_by, qpc, qpage, qsize, qreq, attempts, lastStatus, lastDelay,
               qrsp, qout>>

rvars == <<treq>>

vars == <<ivars, qvars, nvars, rvars>>

\* What one attempt of the transport gets: a response with a status, or
\* a network error and no response.
Response(s) == [neterr |-> FALSE, status |-> s]
NetErr == [neterr |-> TRUE, status |-> 0]
NoResponse == [neterr |-> FALSE, status |-> 0]

ZeroStats == [numAdded |-> 0, numFlushed |-> 0, numFailed |-> 0]

Range(s) == {s[i] : i \in 1..Len(s)}

\* ------------------------------------------------------ indexSource: cb
\* The document built from a row (lines 285-289).
Doc(row, label) == [id |-> row.id, label |-> row.label, source |-> label]

\* The same item with no DocumentID: the backend then assigns one itself.
BulkItemNoId(row, label, n) ==
    [n |-> n, run |-> run, Action |-> "index", DocumentID |-> "",
     Body |-> Doc(row, label)]

\* The bulk item submitted for a row (lines 291-318).
BulkItem(row, label, n) ==
    [n |-> n, run |-> run, Action |-> "index", DocumentID |-> row.id,
     Body |-> Doc(row, label)]

\* ------------------------------------------------------------- backend
\* The key under which the backend stores an item: its DocumentID, or an
\* id the backend generates when the item carries none.
DocKey(item) ==
    IF item.DocumentID = "" THEN <<"auto", item.run, item.n>>
    ELSE <<"id", item.DocumentID>>

\* The "index" action: create the document or overwrite the one of that key.
BulkApply(es, item) ==
    {d \in es : d.key # DocKey(item)} \cup {[key |-> DocKey(item), doc |-> item.Body]}

\* ===================================================== construction
\* The characters a ?workers= value is made of.
Chars == {"0", "1", "2", "-", "+", "x"}
Digits == {"0", "1", "2"}
DigitVal(c) == CASE c = "0" -> 0 [] c = "1" -> 1 [] c = "2" -> 2

\* The strings of at most n characters.
Strings(n) == UNION {[1..k -> Chars] : k \in 0..n}

\* The value of a string of decimal digits.
RECURSIVE Decimal(_)
Decimal(ds) ==
    IF ds = << >> THEN 0
    ELSE 10 * Decimal(SubSeq(ds, 1, Len(ds) - 1)) + DigitVal(ds[Len(ds)])

\* strconv.Atoi (line 69): an optional sign and at least one digit.
Atoi(str) ==
    LET signed == str # << >> /\ str[1] \in {"-", "+"}
        ds     == IF signed THEN Tail(str) ELSE str
        ok     == ds # << >> /\ \A i \in 1..Len(ds) : ds[i] \in Digits
    IN  IF ~ok THEN [ok |-> FALSE, val |-> 0]
        ELSE [ok |-> TRUE,
              val |-> IF signed /\ str[1] = "-" THEN 0 - Decimal(ds) ELSE Decimal(ds)]

\* strconv.ParseBool (lines 80, 92).
ParseBool(str) ==
    IF str \in {"1", "t", "T", "TRUE", "true", "True"} THEN [ok |-> TRUE, val |-> TRUE]
    ELSE IF str \in {"0", "f", "F", "FALSE", "false", "False"} THEN [ok |-> TRUE, val |-> FALSE]
    ELSE [ok |-> FALSE, val |-> FALSE]

\* The values given for ?debug= and ?create-index=.
BoolInputs == {"", "true", "0", "yes"}
\* The values given for ?query-by=.
QueryByInputs == {"", "text", "label", "keyword"}

\* The switch with every value accepted.
ParseQueryByUnchecked(q) == [ok |-> TRUE, mode |-> IF q = "" THEN "label" ELSE q]

\* ?query-by= (lines 54, 101-111): "label" when absent, the value when it
\* is "text" or "label", an error otherwise.
ParseQueryBy(q) ==
    IF q = "" THEN [ok |-> TRUE, mode |-> "label"]
    ELSE IF q \in {"text", "label"} THEN [ok |-> TRUE, mode |-> q]
    ELSE [ok |-> FALSE, mode |-> "label"]

NoLocals ==
    [err |-> "", workers |-> 10, debug |-> FALSE, logger |-> "discard",
     create_index |-> FALSE, query_by |-> "label"]

\* The options parsed in the order of the code (lines 49-111): the first
\* one that fails gives the error.
ParseOptions(o) ==
    LET w  == Atoi(o.workers)
        d  == ParseBool(o.debug)
        c  == ParseBool(o.create_index)
        qb == ParseQueryBy(o.query_by)
        fail(msg) == [NoLocals EXCEPT !.err = msg]
    IN  IF ~o.uri_ok THEN fail("Failed to parse URI")
        ELSE IF o.workers # << >> /\ ~w.ok THEN fail("Failed to parse workers")
        ELSE IF o.debug # "" /\ ~d.ok THEN fail("Failed to parse ?debug= parameter")
        ELSE IF o.create_index # "" /\ ~c.ok THEN fail("Failed to parse ?create-index= parameter")
        ELSE IF ~qb.ok THEN fail("Invalid ?search-by= parameter")
        ELSE [err |-> "",
              workers |-> IF o.workers # << >> THEN w.val ELSE 10,
              debug |-> IF o.debug # "" THEN d.val ELSE FALSE,
              logger |-> IF o.debug # "" THEN "stdout" ELSE "discard",
              create_index |-> IF o.create_index # "" THEN c.val ELSE FALSE,
              query_by |-> qb.mode]

NilHandle == [isnil |-> TRUE, workers |-> 0, query_by |-> "", logger |-> ""]

\* The handle built from the locals (lines 156-164).
Handle(l) ==
    [isnil |-> FALSE, workers |-> l.workers, query_by |-> l.query_by, logger |-> l.logger]

\* NewElasticsearchV7Database is called with a uri (lines 41-111).
NewCall ==
    /\ npc = "idle"
    /\ \E ok \in BOOLEAN, w \in Strings(MaxNumLen), d \in BoolInputs,
          c \in BoolInputs, q \in QueryByInputs :
          LET o == [uri_ok |-> ok, workers |-> w, debug |-> d, create_index |-> c,
                    query_by |-> q]
              l == ParseOptions(o)
          IN  /\ nopts' = o
              /\ nlocal' = l
              /\ nerr' = l.err
              /\ npc' = IF l.err = "" THEN "client" ELSE "done"
    /\ nhandle' = NilHandle
    /\ ncreateCalls' = 0
    /\ ncreateRsp' = NoResponse

\* es.NewClient (lines 113-145), and the return of the handle when no
\* index is to be created (lines 147, 156-164).
NewClient ==
    /\ npc = "client"
    /\ \/ /\ nerr' = "Failed to create ES client"
          /\ npc' = "done"
          /\ UNCHANGED nhandle
       \/ /\ nlocal.create_index
          /\ npc' = "create"
          /\ UNCHANGED <<nerr, nhandle>>
       \/ /\ ~nlocal.create_index
          /\ nhandle' = Handle(nlocal)
          /\ npc' = "done"
          /\ UNCHANGED nerr
    /\ UNCHANGED <<nopts, nlocal, ncreateCalls, ncreateRsp>>

\* es_client.Indices.Create (lines 147-164): its error, set only when no
\* response was received, aborts; its response is discarded.
NewCreateIndex ==
    /\ npc = "create"
    /\ ncreateCalls' = ncreateCalls + 1
    /\ \E r \in {Response(s) : s \in {200, 400}} \cup {NetErr} :
          /\ ncreateRsp' = r
          /\ IF r.neterr
                THEN /\ nerr' = "Failed to create index"
                     /\ nhandle' = nhandle
                ELSE /\ nerr' = nerr
                     /\ nhandle' = Handle(nlocal)
    /\ npc' = "done"
    /\ UNCHANGED <<nopts, nlocal>>

\* The query parameters of a uri that gives none.
NoOptions ==
    [uri_ok |-> TRUE, workers |-> << >>, debug |-> "", create_index |-> "",
     query_by |-> ""]

\* The constructor has returned and is called again.
NewAgain ==
    /\ npc = "done"
    /\ npc' = "idle"
    /\ nopts' = NoOptions
    /\ nlocal' = NoLocals
    /\ ncreateCalls' = 0
    /\ ncreateRsp' = NoResponse
    /\ nhandle' = NilHandle
    /\ nerr' = ""

\* No constructor call is in progress.
NewIdle ==
    /\ npc = "idle"
    /\ nopts = NoOptions
    /\ nlocal = NoLocals
    /\ ncreateCalls = 0
    /\ ncreateRsp = NoResponse
    /\ nhandle = NilHandle
    /\ nerr = ""

NewNext ==
    \/ NewCall /\ UNCHANGED <<ivars, qvars, rvars>>
    \/ NewClient /\ UNCHANGED <<ivars, qvars, rvars>>
    \/ NewCreateIndex /\ UNCHANGED <<ivars, qvars, rvars>>
    \/ NewAgain /\ UNCHANGED <<ivars, qvars, rvars>>

\* ======================================= requests sharing the client
\* Every request made through the handle's client, the bulk requests of
\* the writer's workers (Client of line 242) and the search request of
\* Query (line 366), runs the transport's retry loop with the one
\* RetryBackoff closure of lines 121-126, which captures the one
\* ExponentialBackOff of line 113. That object has no lock.
Reqs == 1..NumReqs

IdleReq == [pc |-> "idle", i |-> 0, delay |-> -1]

\* A worker or a Query call hands a request to the client.
ReqStart(r) ==
    /\ treq[r].pc = "idle"
    /\ treq' = [treq EXCEPT ![r] = [pc |-> "attempt", i |-> 0, delay |-> -1]]
    /\ UNCHANGED retryLevel

\* An attempt is answered with a status of RetryOnStatus or fails on the
\* network, retries are left, and the transport calls RetryBackoff(i)
\* (lines 120-127).
ReqAttemptFails(r) ==
    /\ treq[r].pc = "attempt"
    /\ treq[r].i < MaxRetries
    /\ treq' = [treq EXCEPT ![r].i = @ + 1,
                            ![r].pc = IF treq[r].i + 1 = 1 THEN "reset" ELSE "next"]
    /\ UNCHANGED retryLevel

\* if i == 1 { retry.Reset() } (lines 122-124).
BackoffReset(r) ==
    /\ treq[r].pc = "reset"
    /\ retryLevel' = 0
    /\ treq' = [treq EXCEPT ![r].pc = "next"]

\* retry.NextBackOff() (line 125) reads the current interval, from which
\* the delay it returns is drawn ...
BackoffNext(r) ==
    /\ treq[r].pc = "next"
    /\ treq' = [treq EXCEPT ![r].delay = retryLevel, ![r].pc = "incr"]
    /\ UNCHANGED retryLevel

\* ... and then grows the current interval and returns; the transport
\* sleeps and makes the next attempt.
BackoffIncrement(r) ==
    /\ treq[r].pc = "incr"
    /\ retryLevel' = retryLevel + 1
    /\ treq' = [treq EXCEPT ![r].pc = "attempt", ![r].delay = -1]

\* An attempt whose outcome the transport returns to the caller.
ReqReturn(r) ==
    /\ treq[r].pc = "attempt"
    /\ treq' = [treq EXCEPT ![r] = IdleReq]
    /\ UNCHANGED retryLevel

\* No request is in flight.
RetryIdle == treq = [r \in Reqs |-> IdleReq]

RetryNext ==
    \/ (\E r \in Reqs : ReqStart(r)) /\ UNCHANGED <<ivars, qcallvars, nvars>>
    \/ (\E r \in Reqs : ReqAttemptFails(r)) /\ UNCHANGED <<ivars, qcallvars, nvars>>
    \/ (\E r \in Reqs : BackoffReset(r)) /\ UNCHANGED <<ivars, qcallvars, nvars>>
    \/ (\E r \in Reqs : BackoffNext(r)) /\ UNCHANGED <<ivars, qcallvars, nvars>>
    \/ (\E r \in Reqs : BackoffIncrement(r)) /\ UNCHANGED <<ivars, qcallvars, nvars>>
    \/ (\E r \in Reqs : ReqReturn(r)) /\ UNCHANGED <<ivars, qcallvars, nvars>>

\* ------------------------------------------------------------ Index call
\* esutil.NewBulkIndexer (lines 240-258).
NewBulkIndexer ==
    /\ pc = "create"
    /\ \/ /\ created' = TRUE
          /\ closed' = FALSE
          /\ stats' = ZeroStats
          /\ queue' = << >>
          /\ cur' = 1
          /\ pc' = IF nsrc = 0 THEN "close" ELSE "iterate"
          /\ UNCHANGED <<result, errLabel>>
       \/ /\ result' = "create_error"
          /\ errLabel' = << >>
          /\ pc' = "done"
          /\ UNCHANGED <<created, closed, stats, queue, cur>>
    /\ UNCHANGED <<run, nsrc, produced, nrows, ctxDone, inflight, esindex, succeeded,
                   failedLogged, schedFailed, signalled, statsLogged,
                   sigDone>>

\* The source calls cb with a row and indexer.Add accepts the item
\* (lines 283-320, 327-328): Add's select sends on the queue when it has
\* room, also when the context is done (a select with two ready cases
\* takes either).
RowAccepted ==
    /\ pc = "iterate"
    /\ nrows < MaxRows
    /\ Len(queue) < QueueCap
    /\ \E id \in RowIds, lb \in RowLabels :
          queue' = Append(queue, BulkItem([id |-> id, label |-> lb], SrcLabel(cur), nrows + 1))
    /\ produced' = produced + 1
    /\ nrows' = nrows + 1
    /\ stats' = [stats EXCEPT !.numAdded = @ + 1]
    /\ signalled' = signalled + 1
    /\ UNCHANGED <<pc, run, nsrc, cur, ctxDone, created, closed, inflight, esindex,
                   succeeded, failedLogged, schedFailed, statsLogged, result,
                   errLabel, sigDone>>

\* The same step with the progress monitor signalled all the same.
RowRejectedSignalling ==
    /\ pc = "iterate"
    /\ nrows < MaxRows
    /\ ctxDone
    /\ produced' = produced + 1
    /\ nrows' = nrows + 1
    /\ stats' = [stats EXCEPT !.numAdded = @ + 1]
    /\ schedFailed' = schedFailed + 1
    /\ signalled' = signalled + 1
    /\ UNCHANGED <<pc, run, nsrc, cur, ctxDone, created, closed, queue, inflight,
                   esindex, succeeded, failedLogged, statsLogged, result,
                   errLabel, sigDone>>

\* The same step with cb returning the error of Add, which ends the
\* iteration of the source and the Index call.
RowRejectedFails ==
    /\ pc = "iterate"
    /\ nrows < MaxRows
    /\ ctxDone
    /\ produced' = produced + 1
    /\ nrows' = nrows + 1
    /\ stats' = [stats EXCEPT !.numAdded = @ + 1]
    /\ schedFailed' = schedFailed + 1
    /\ result' = "index_error"
    /\ errLabel' = <<SrcLabel(cur)>>
    /\ pc' = "done"
    /\ UNCHANGED <<run, nsrc, cur, ctxDone, created, closed, queue, inflight,
                   esindex, succeeded, failedLogged, signalled, statsLogged, sigDone>>

\* The source calls cb with a row and indexer.Add returns an error
\* (lines 320-325): the context is done. cb logs and returns nil.
RowRejected ==
    /\ pc = "iterate"
    /\ nrows < MaxRows
    /\ ctxDone
    /\ produced' = produced + 1
    /\ nrows' = nrows + 1
    /\ stats' = [stats EXCEPT !.numAdded = @ + 1]
    /\ schedFailed' = schedFailed + 1
    /\ UNCHANGED <<pc, run, nsrc, cur, ctxDone, created, closed, queue, inflight,
                   esindex, succeeded, failedLogged, signalled, statsLogged, result,
                   errLabel, sigDone>>

\* src.Index returns nil (lines 262-267, 331): the loop goes to the next
\* source, or leaves for Close after the last one.
SourceDone ==
    /\ pc = "iterate"
    /\ IF cur < nsrc
          THEN /\ cur' = cur + 1
               /\ pc' = "iterate"
          ELSE /\ cur' = cur
               /\ pc' = "close"
    /\ UNCHANGED <<run, nsrc, produced, nrows, ctxDone, created, closed, queue, inflight,
                   esindex, stats, succeeded, failedLogged, schedFailed, signalled,
                   statsLogged, result,
                   errLabel, sigDone>>

\* The same step with the error naming the first source of the call.
SourceFailFirstLabel ==
    /\ pc = "iterate"
    /\ result' = "index_error"
    /\ errLabel' = <<SrcLabel(1)>>
    /\ pc' = "done"
    /\ UNCHANGED <<run, nsrc, cur, produced, nrows, ctxDone, created, closed, queue,
                   inflight, esindex, stats, succeeded, failedLogged, schedFailed,
                   signalled, statsLogged, sigDone>>

\* src.Index returns an error (lines 262-266): Index returns at once,
\* with an error that names src.Label.
SourceFail ==
    /\ pc = "iterate"
    /\ result' = "index_error"
    /\ errLabel' = <<SrcLabel(cur)>>
    /\ pc' = "done"
    /\ UNCHANGED <<run, nsrc, cur, produced, nrows, ctxDone, created, closed, queue,
                   inflight, esindex, stats, succeeded, failedLogged, schedFailed,
                   signalled, statsLogged,
                   sigDone>>

\* indexer.Close(ctx) is called (lines 269-273): it closes the queue and,
\* when the context is done, returns its error without waiting.
IndexClose ==
    /\ pc = "close"
    /\ closed' = TRUE
    /\ IF ctxDone
          THEN /\ result' = "close_error"
               /\ errLabel' = << >>
               /\ pc' = "done"
          ELSE /\ result' = result
               /\ errLabel' = errLabel
               /\ pc' = "closing"
    /\ UNCHANGED <<run, nsrc, cur, produced, nrows, ctxDone, created, queue, inflight,
                   esindex, stats, succeeded, failedLogged, schedFailed, signalled,
                   statsLogged,
                   sigDone>>

\* indexer.Close returns nil (line 269): the workers have drained the queue
\* and every buffer is flushed.
IndexCloseReturn ==
    /\ pc = "closing"
    /\ queue = << >>
    /\ {it \in inflight : it.run = run} = {}
    /\ pc' = "stats"
    /\ UNCHANGED <<run, nsrc, cur, produced, nrows, ctxDone, created, closed, queue,
                   inflight, esindex, stats, succeeded, failedLogged, schedFailed,
                   signalled, statsLogged, result,
                   errLabel, sigDone>>

\* The same step returning an error when a document of the run failed.
IndexStatsEscalating ==
    /\ pc = "stats"
    /\ statsLogged' = stats
    /\ result' = IF stats.numFailed > 0 THEN "index_error" ELSE "nil"
    /\ errLabel' = << >>
    /\ pc' = "done"
    /\ UNCHANGED <<run, nsrc, cur, produced, nrows, ctxDone, created, closed, queue,
                   inflight, esindex, stats, succeeded, failedLogged, schedFailed,
                   signalled,
                   sigDone>>

\* Stats are logged and Index returns nil (lines 275-278).
IndexStats ==
    /\ pc = "stats"
    /\ statsLogged' = stats
    /\ result' = "nil"
    /\ errLabel' = << >>
    /\ pc' = "done"
    /\ UNCHANGED <<run, nsrc, cur, produced, nrows, ctxDone, created, closed, queue,
                   inflight, esindex, stats, succeeded, failedLogged, schedFailed,
                   signalled,
                   sigDone>>

\* ------------------------------------------------------------- workers
\* A worker of the writer takes the next item of the queue into its buffer.
WorkerTake ==
    /\ created
    /\ queue # << >>
    /\ inflight' = inflight \cup {Head(queue)}
    /\ queue' = Tail(queue)
    /\ UNCHANGED <<pc, run, nsrc, cur, produced, nrows, ctxDone, created, closed, esindex,
                   stats, succeeded, failedLogged, schedFailed, signalled,
                   statsLogged, result,
                   errLabel, sigDone>>

\* A worker's flush reports an item indexed: OnSuccess (lines 307-309).
FlushSuccess ==
    \E it \in inflight :
       /\ inflight' = inflight \ {it}
       /\ esindex' = BulkApply(esindex, it)
       /\ IF it.run = run
             THEN /\ succeeded' = succeeded + 1
                  /\ stats' = [stats EXCEPT !.numFlushed = @ + 1]
             ELSE UNCHANGED <<succeeded, stats>>
       /\ UNCHANGED <<pc, run, nsrc, cur, produced, nrows, ctxDone, created, closed, queue,
                      failedLogged, schedFailed, signalled, statsLogged, result,
                   errLabel, sigDone>>

\* A worker reports an item failed, with a transport error or with the
\* backend's error type and reason: OnFailure logs it (lines 311-317).
FlushFailure ==
    \E it \in inflight :
       /\ inflight' = inflight \ {it}
       /\ IF it.run = run
             THEN /\ failedLogged' = failedLogged + 1
                  /\ stats' = [stats EXCEPT !.numFailed = @ + 1]
             ELSE UNCHANGED <<failedLogged, stats>>
       /\ UNCHANGED <<pc, run, nsrc, cur, produced, nrows, ctxDone, created, closed, queue,
                      esindex, succeeded, schedFailed, signalled, statsLogged, result,
                   errLabel, sigDone>>

\* A goroutine started by "go monitor.Signal(ctx)" (line 327) runs the
\* monitor's Signal to its end; it may also never do so.
MonitorSignal ==
    /\ sigDone < signalled
    /\ sigDone' = sigDone + 1
    /\ UNCHANGED <<pc, run, nsrc, cur, produced, nrows, ctxDone, created, closed, queue,
                   inflight, esindex, stats, succeeded, failedLogged, schedFailed,
                   signalled, statsLogged, result, errLabel>>

\* ------------------------------------------------------------- callers
\* The owner of the context cancels it while Index runs.
Cancel ==
    /\ pc \notin {"done"}
    /\ ~ctxDone
    /\ ctxDone' = TRUE
    /\ UNCHANGED <<pc, run, nsrc, cur, produced, nrows, created, closed, queue, inflight,
                   esindex, stats, succeeded, failedLogged, schedFailed, signalled,
                   statsLogged, result,
                   errLabel, sigDone>>

\* Index is called again on the same handle with a fresh context; what
\* the previous writer still holds stays with its workers.
IndexAgain ==
    /\ pc = "done"
    /\ run < MaxRuns
    /\ run' = run + 1
    /\ nsrc' \in 0..MaxSources
    /\ pc' = "create"
    /\ cur' = 0
    /\ produced' = 0
    /\ ctxDone' = FALSE
    /\ created' = FALSE
    /\ closed' = FALSE
    /\ inflight' = inflight \cup Range(queue)
    /\ queue' = << >>
    /\ stats' = ZeroStats
    /\ succeeded' = 0
    /\ failedLogged' = 0
    /\ schedFailed' = 0
    /\ signalled' = 0
    /\ statsLogged' = "none"
    /\ result' = "none"
    /\ errLabel' = << >>
    /\ sigDone' = 0
    /\ UNCHANGED <<esindex, nrows>>

IndexInit ==
    /\ pc = "create"
    /\ run = 1
    /\ nsrc \in 0..MaxSources
    /\ cur = 0
    /\ produced = 0
    /\ nrows = 0
    /\ ctxDone = FALSE
    /\ created = FALSE
    /\ closed = FALSE
    /\ queue = << >>
    /\ inflight = {}
    /\ esindex = {}
    /\ stats = ZeroStats
    /\ succeeded = 0
    /\ failedLogged = 0
    /\ schedFailed = 0
    /\ signalled = 0
    /\ statsLogged = "none"
    /\ result = "none"
    /\ errLabel = << >>
    /\ sigDone = 0

IndexNext ==
    \/ NewBulkIndexer /\ UNCHANGED <<qvars, nvars, rvars>>
    \/ RowAccepted /\ UNCHANGED <<qvars, nvars, rvars>>
    \/ RowRejected /\ UNCHANGED <<qvars, nvars, rvars>>
    \/ SourceDone /\ UNCHANGED <<qvars, nvars, rvars>>
    \/ SourceFail /\ UNCHANGED <<qvars, nvars, rvars>>
    \/ IndexClose /\ UNCHANGED <<qvars, nvars, rvars>>
    \/ IndexCloseReturn /\ UNCHANGED <<qvars, nvars, rvars>>
    \/ IndexStats /\ UNCHANGED <<qvars, nvars, rvars>>
    \/ WorkerTake /\ UNCHANGED <<qvars, nvars, rvars>>
    \/ FlushSuccess /\ UNCHANGED <<qvars, nvars, rvars>>
    \/ FlushFailure /\ UNCHANGED <<qvars, nvars, rvars>>
    \/ MonitorSignal /\ UNCHANGED <<qvars, nvars, rvars>>
    \/ Cancel /\ UNCHANGED <<qvars, nvars, rvars>>
    \/ IndexAgain /\ UNCHANGED <<qvars, nvars, rvars>>

\* No Index call is in progress.
IndexIdle ==
    /\ pc = "idle"
    /\ run = 0
    /\ nsrc = 0
    /\ cur = 0
    /\ produced = 0
    /\ nrows = 0
    /\ ctxDone = FALSE
    /\ created = FALSE
    /\ closed = FALSE
    /\ queue = << >>
    /\ inflight = {}
    /\ esindex = {}
    /\ stats = ZeroStats
    /\ succeeded = 0
    /\ failedLogged = 0
    /\ schedFailed = 0
    /\ signalled = 0
    /\ statsLogged = "none"
    /\ result = "none"
    /\ errLabel = << >>
    /\ sigDone = 0

\* No Query call is in progress.
QueryIdle ==
    /\ query_by = "label"
    /\ qpc = "idle"
    /\ qpage = 1
    /\ qsize = 1
    /\ qreq = "none"
    /\ attempts = 0
    /\ lastStatus = NoResponse
    /\ retryLevel = 0
    /\ lastDelay = -1
    /\ qrsp = "none"
    /\ qout = "none"

InitIndex == IndexInit /\ QueryIdle /\ NewIdle /\ RetryIdle

SpecIndex == InitIndex /\ [][IndexNext]_vars

\* =============================================================== Query
\* The search body built from the query string (lines 338-343): which
\* field the phrase is matched against.
QueryBody(mode) ==
    IF mode = "text" THEN [match_phrase |-> "search"]
    ELSE [match_phrase |-> "label.keyword"]

\* countable.PageFromOptions (line 359): the page asked for, at least 1.
PageFromOptions(page) == IF page < 1 THEN 1 ELSE page

\* The offset computed as page * size.
QueryFromOffByOne(pg, size) == IF pg > 1 THEN <<pg * size>> ELSE << >>

\* req.From (lines 361-364), a pointer: << >> when it is left nil, set
\* only when the page is past the first.
QueryFrom(pg, size) == IF pg > 1 THEN <<(pg - 1) * size>> ELSE << >>

\* The esapi.SearchRequest (lines 347-364).
SearchRequest(mode, page, size) ==
    [Body |-> QueryBody(mode), Size |-> size,
     From |-> QueryFrom(PageFromOptions(page), size)]

\* The offset the backend applies: 0 when the request carries no From.
BackendOffset(req) == IF req.From = << >> THEN 0 ELSE req.From[1]

\* The total taken from the length of the hit list.
QueryTotalFromHits(rsp) == Len(rsp.hits)

\* total := query_rsp.Hits.Total.Value (line 387).
QueryTotal(rsp) == rsp.total

\* results (lines 389-393): one result per hit, in order.
QueryResults(rsp) ==
    [isnil |-> FALSE, items |-> [i \in 1..Len(rsp.hits) |-> rsp.hits[i]]]

\* countable.NewResultsFromCountWithOptions (line 398): the pagination
\* derived from the page request and a total count.
NewResultsFromCount(page, per_page, total) ==
    LET pp    == IF per_page < 1 THEN 1 ELSE per_page
        pg    == PageFromOptions(page)
        pages == (total \div pp) + (IF total % pp > 0 THEN 1 ELSE 0)
    IN  [isnil |-> FALSE, total |-> total, per_page |-> pp, page |-> pg, pages |-> pages,
         next_page |-> IF pages > 1 /\ pg < pages THEN pg + 1 ELSE 0,
         previous_page |-> IF pages > 1 /\ pg > 1 THEN pg - 1 ELSE 0]

\* Query is called (lines 334-364): the request is built.
QueryCall ==
    /\ qpc = "idle"
    /\ \E page \in 1..MaxPage, size \in 1..MaxPerPage :
          /\ qpage' = page
          /\ qsize' = size
          /\ qreq' = SearchRequest(query_by, page, size)
    /\ qpc' = "do"
    /\ attempts' = 0
    /\ lastStatus' = NoResponse
    /\ lastDelay' = -1
    /\ qrsp' = "none"
    /\ qout' = "none"
    /\ UNCHANGED <<query_by, retryLevel>>

\* es.Config.RetryBackoff (lines 121-126): the shared backoff is reset on
\* the first retry of a request; each call returns the current interval
\* and grows it.
RetryBackoffLevel(i) == IF i = 1 THEN 0 ELSE retryLevel

\* The same step without the limit on retries.
TransportRetryUnbounded ==
    /\ qpc = "do"
    /\ attempts < MaxRetries + 2
    /\ \E r \in {Response(s) : s \in RetryOnStatus} \cup {NetErr} : lastStatus' = r
    /\ attempts' = attempts + 1
    /\ lastDelay' = (IF attempts + 1 = 1 THEN 0 ELSE retryLevel)
    /\ retryLevel' = (IF attempts + 1 = 1 THEN 0 ELSE retryLevel) + 1
    /\ UNCHANGED <<query_by, qpc, qpage, qsize, qreq, qrsp, qout>>

\* One attempt of the transport for req.Do (line 366) is answered with a
\* retryable status, or fails on the network, and the transport sends the
\* request again after RetryBackoff(i + 1).
TransportRetry ==
    /\ qpc = "do"
    /\ attempts < MaxRetries
    /\ \E r \in {Response(s) : s \in RetryOnStatus} \cup {NetErr} : lastStatus' = r
    /\ attempts' = attempts + 1
    /\ lastDelay' = RetryBackoffLevel(attempts + 1)
    /\ retryLevel' = RetryBackoffLevel(attempts + 1) + 1
    /\ UNCHANGED <<query_by, qpc, qpage, qsize, qreq, qrsp, qout>>

\* The attempt whose outcome req.Do returns (line 366): a status that is
\* not retried, a network error, or any outcome of the attempt after the
\* last retry.
TransportReturn ==
    /\ qpc = "do"
    /\ \E r \in {Response(s) : s \in Statuses} \cup {NetErr} :
          /\ (r.status \in RetryOnStatus => attempts = MaxRetries)
          /\ lastStatus' = r
    /\ attempts' = attempts + 1
    /\ qpc' = "response"
    /\ UNCHANGED <<query_by, qpage, qsize, qreq, retryLevel, lastDelay, qrsp, qout>>

\* A nil slice, a nil pagination.Results and a nil error.
NilResults == [isnil |-> TRUE, items |-> << >>]
NilPagination ==
    [isnil |-> TRUE, total |-> 0, per_page |-> 0, page |-> 0, pages |-> 0,
     next_page |-> 0, previous_page |-> 0]
NilError == [isnil |-> TRUE, msg |-> "", status |-> 0]

\* An error return that hands back an empty, non-nil result slice.
QueryErrorPartial(msg, status) ==
    [results |-> [isnil |-> FALSE, items |-> << >>], pagination |-> NilPagination,
     err |-> [isnil |-> FALSE, msg |-> msg, status |-> status]]

\* The error returns of Query: nil, nil and the error.
QueryError(msg, status) ==
    [results |-> NilResults, pagination |-> NilPagination,
     err |-> [isnil |-> FALSE, msg |-> msg, status |-> status]]

\* req.Do returned an error (lines 368-370).
QueryPerformError ==
    /\ qpc = "response"
    /\ lastStatus.neterr
    /\ qout' = QueryError("Failed to perform query", 0)
    /\ qpc' = "done"
    /\ UNCHANGED <<query_by, qpage, qsize, qreq, attempts, lastStatus, retryLevel,
                   lastDelay, qrsp>>

\* rsp.IsError() (lines 374-376): a status above 299.
QueryStatusError ==
    /\ qpc = "response"
    /\ ~lastStatus.neterr
    /\ lastStatus.status > 299
    /\ qout' = QueryError("Request failed with response", lastStatus.status)
    /\ qpc' = "done"
    /\ UNCHANGED <<query_by, qpage, qsize, qreq, attempts, lastStatus, retryLevel,
                   lastDelay, qrsp>>

\* The body does not decode (lines 380-385).
QueryDecodeError ==
    /\ qpc = "response"
    /\ ~lastStatus.neterr
    /\ lastStatus.status <= 299
    /\ qout' = QueryError("Failed to decode response", 0)
    /\ qpc' = "done"
    /\ UNCHANGED <<query_by, qpage, qsize, qreq, attempts, lastStatus, retryLevel,
                   lastDelay, qrsp>>

\* The body decodes into a hit list and a total, which the backend chose,
\* and Query returns the results and the pagination (lines 387-404).
QueryReturn ==
    /\ qpc = "response"
    /\ ~lastStatus.neterr
    /\ lastStatus.status <= 299
    /\ \E n \in 0..MaxHits, total \in 0..MaxTotal :
          LET rsp == [hits |-> [i \in 1..n |-> <<"hit", i>>], total |-> total]
          IN  /\ qrsp' = rsp
              /\ qout' = [results |-> QueryResults(rsp),
                          pagination |-> NewResultsFromCount(qpage, qsize, QueryTotal(rsp)),
                          err |-> NilError]
    /\ qpc' = "done"
    /\ UNCHANGED <<query_by, qpage, qsize, qreq, attempts, lastStatus, retryLevel,
                   lastDelay>>

\* The body decodes but countable.NewResultsFromCountWithOptions returns
\* an error (lines 398-402).
QueryPaginationError ==
    /\ qpc = "response"
    /\ ~lastStatus.neterr
    /\ lastStatus.status <= 299
    /\ \E n \in 0..MaxHits, total \in 0..MaxTotal :
          qrsp' = [hits |-> [i \in 1..n |-> <<"hit", i>>], total |-> total]
    /\ qout' = QueryError("Failed to create response pagination", 0)
    /\ qpc' = "done"
    /\ UNCHANGED <<query_by, qpage, qsize, qreq, attempts, lastStatus, retryLevel,
                   lastDelay>>

\* Query has returned; the handle is ready for the next call.
QueryAgain ==
    /\ qpc = "done"
    /\ qpc' = "idle"
    /\ qpage' = 1
    /\ qsize' = 1
    /\ qreq' = "none"
    /\ attempts' = 0
    /\ lastStatus' = NoResponse
    /\ lastDelay' = -1
    /\ qrsp' = "none"
    /\ qout' = "none"
    /\ UNCHANGED <<query_by, retryLevel>>

QueryNext ==
    \/ QueryCall /\ UNCHANGED <<ivars, nvars, rvars>>
    \/ TransportRetry /\ UNCHANGED <<ivars, nvars, rvars>>
    \/ TransportReturn /\ UNCHANGED <<ivars, nvars, rvars>>
    \/ QueryPerformError /\ UNCHANGED <<ivars, nvars, rvars>>
    \/ QueryStatusError /\ UNCHANGED <<ivars, nvars, rvars>>
    \/ QueryDecodeError /\ UNCHANGED <<ivars, nvars, rvars>>
    \/ QueryReturn /\ UNCHANGED <<ivars, nvars, rvars>>
    \/ QueryPaginationError /\ UNCHANGED <<ivars, nvars, rvars>>
    \/ QueryAgain /\ UNCHANGED <<ivars, nvars, rvars>>

\* A handle built with either query-field mode.
QueryInit ==
    /\ query_by \in {"text", "label"}
    /\ qpc = "idle"
    /\ qpage = 1
    /\ qsize = 1
    /\ qreq = "none"
    /\ attempts = 0
    /\ lastStatus = NoResponse
    /\ retryLevel = 0
    /\ lastDelay = -1
    /\ qrsp = "none"
    /\ qout = "none"

InitQuery == IndexIdle /\ QueryInit /\ NewIdle /\ RetryIdle

SpecQuery == InitQuery /\ [][QueryNext]_vars

InitNew == IndexIdle /\ QueryIdle /\ NewIdle /\ RetryIdle

SpecNew == InitNew /\ [][NewNext]_vars

\* The handle is built, its backoff at the initial interval (line 113),
\* and no request is in flight.
InitRetry == IndexIdle /\ QueryIdle /\ NewIdle /\ RetryIdle

SpecRetry == InitRetry /\ [][RetryNext]_vars

\* =================================================== claims: Index
IndexReturned == pc = "done"

\* The rows of this call the writer still holds when nothing has been
\* reported for them.
Unflushed == Range(queue) \cup {it \in inflight : it.run = run}

\* C1: once Index has returned, the logged failures (rejected submissions
\* included) plus the successes equal the rows the sources produced.
C1_EveryRowHasOutcome ==
    IndexReturned => failedLogged + schedFailed + succeeded = produced

\* C2: every Index call that created a writer has closed it, and the
\* writer holds no unflushed document, when the call returns.
C2_WriterClosedOnReturn ==
    (IndexReturned /\ created) => (closed /\ Unflushed = {})

\* C3: when Close fails, the statistics were logged before the error
\* is returned.
C3_StatsLoggedOnCloseError ==
    (IndexReturned /\ result = "close_error") => statsLogged # "none"

\* C4: a per-document failure changes neither the position nor the result
\* of the Index call nor what is queued, and a call whose writer creation,
\* source iteration and close all succeeded returns nil, however many
\* documents failed.
C4_FailuresNeverEscalate ==
    /\ [][failedLogged' > failedLogged =>
             (pc' = pc /\ cur' = cur /\ result' = result /\ queue' = queue)]_vars
    /\ [][(pc = "stats" /\ pc' = "done") => result' = "nil"]_vars

C4_Witness ==
    /\ IndexReturned
    /\ result = "nil"
    /\ failedLogged = 1
    /\ succeeded = 1

\* C5: once the context is cancelled, no further row is accepted by the
\* writer.
C5_NoSubmissionAfterCancel ==
    [][(ctxDone /\ pc = "iterate" /\ pc' = "iterate") => Len(queue') <= Len(queue)]_vars

\* C9: the index holds at most one document for each row identifier,
\* whatever rows were submitted, in whichever run and flush order.
C9_OneDocumentPerId ==
    \A id \in RowIds \ {""} : Cardinality({d \in esindex : d.doc.id = id}) <= 1

\* Two rows of one call with the same id were both indexed.
C9_Witness ==
    /\ succeeded = 2
    /\ produced = 2
    /\ \E d \in esindex : esindex = {d} /\ d.doc.id = "a"

\* C11: every fatal error Index returns for a writer-construction failure
\* or a close failure carries the label of a source.
C11_FatalErrorsCarryLabel ==
    (IndexReturned /\ result \in {"create_error", "close_error"}) => errLabel # << >>

\* The rows of this call the writer accepted.
Accepted == Cardinality(Unflushed) + succeeded + failedLogged

\* C17: the monitor is signalled once for each accepted row and never for
\* a rejected one, and a signal that finishes, or never does, changes
\* nothing of the Index call.
C17_SignalPerAcceptedRow ==
    /\ [](signalled = Accepted)
    /\ [](signalled + schedFailed = produced)
    /\ [](sigDone <= signalled)
    /\ [][schedFailed' > schedFailed => signalled' = signalled]_vars
    /\ [][sigDone' > sigDone =>
             UNCHANGED <<pc, cur, produced, queue, inflight, result, signalled>>]_vars

\* Index returned nil after two accepted rows while no signal had finished.
C17_Witness ==
    /\ IndexReturned
    /\ result = "nil"
    /\ signalled = 2
    /\ sigDone = 0

\* C18: a rejected submission leaves the call iterating the same source
\* with no result set and the queue as it was.
C18_RejectionIsNoOp ==
    [][schedFailed' > schedFailed =>
          (pc' = "iterate" /\ cur' = cur /\ result' = "none" /\ errLabel' = << >>
           /\ queue' = queue /\ inflight' = inflight)]_vars

\* The first row was rejected and the second row of the source accepted.
C18_Witness ==
    /\ run = 1
    /\ produced = 2
    /\ schedFailed = 1
    /\ \E it \in Range(queue) : it.n = 2

\* C20: sources are iterated one at a time in list order; every accepted
\* row belongs to the source being iterated; an iteration failure returns
\* an error naming that source, ends the iteration, and leaves what the
\* writer and the index hold as it was.
C20_SourcesInOrder ==
    /\ []((IndexReturned /\ result = "index_error") =>
             (cur \in 1..nsrc /\ errLabel = <<SrcLabel(cur)>>))
    /\ [][(cur' # cur /\ pc' # "create") =>
             (cur' = cur + 1 /\ pc \in {"create", "iterate"})]_vars
    /\ [][Len(queue') > Len(queue) =>
             queue'[Len(queue')].Body.source = SrcLabel(cur)]_vars
    /\ [][(pc = "iterate" /\ pc' = "done") =>
             (result' = "index_error" /\ UNCHANGED <<cur, queue, inflight, esindex>>)]_vars
    /\ [][(pc = "done" /\ pc' = "done") =>
             UNCHANGED <<cur, produced, signalled, result, errLabel>>]_vars

\* The second source failed while a row of the first is still with the
\* writer.
C20_Witness ==
    /\ IndexReturned
    /\ result = "index_error"
    /\ cur = 2
    /\ errLabel = <<SrcLabel(2)>>
    /\ \E it \in Unflushed : it.Body.source = SrcLabel(1)

\* =================================================== claims: Query
QueryReturnedOk == qpc = "done" /\ qout.err.isnil

\* C6: the request Query sends carries the page size as its size limit,
\* and the backend's offset is 0 for page 1 and (N-1)*S for page N > 1.
C6_OffsetAndSize ==
    qpc \in {"do", "response", "done"} =>
        /\ qreq.Size = qsize
        /\ BackendOffset(qreq) = IF qpage = 1 THEN 0 ELSE (qpage - 1) * qsize

C6_Witness ==
    qpc = "do" /\ qpage = 3 /\ qsize = 10 /\ BackendOffset(qreq) = 20

\* C7: the pagination of a successful Query carries the backend's total
\* T, its page count is the ceiling of T / S, and the page equal to the
\* page count has no next page.
C7_PaginationFromTotal ==
    QueryReturnedOk =>
        LET pg == qout.pagination
            T  == qrsp.total
        IN  /\ pg.total = T
            /\ pg.pages >= 0
            /\ pg.pages * qsize >= T
            /\ (pg.pages - 1) * qsize < T \/ pg.pages = 0
            /\ (qpage = pg.pages => pg.next_page = 0)

C7_Witness ==
    /\ QueryReturnedOk
    /\ qpage = 4 /\ qsize = 10 /\ qrsp.total = 37
    /\ qout.pagination.pages = 4
    /\ qout.pagination.next_page = 0

\* C8: the slice of a successful Query holds at most page-size results and
\* offset + length of the slice does not exceed the total of the
\* pagination.
C8_SliceConsistentWithTotal ==
    QueryReturnedOk =>
        /\ Len(qout.results.items) <= qsize
        /\ BackendOffset(qreq) + Len(qout.results.items) <= qout.pagination.total

\* C10 as stated: one logical request is attempted at most 5 times.
C10_AtMostFiveAttempts == attempts <= MaxRetries

\* C10 as amended: one logical request is attempted at most 1 + 5 times
\* (5 retries); an attempt is repeated only after a retryable status or a
\* network error; a request that ends on a retryable status has used all
\* its attempts; and a request that ends on a success status after
\* retries yields a successful query unless the body fails to decode or
\* the pagination cannot be built from it.
C10_AtMostSixAttempts ==
    /\ [](attempts <= MaxRetries + 1)
    /\ [][(attempts >= 1 /\ attempts' = attempts + 1) =>
             (lastStatus.neterr \/ lastStatus.status \in RetryOnStatus)]_vars
    /\ []((qpc \in {"response", "done"} /\ lastStatus.status \in RetryOnStatus)
             => attempts = MaxRetries + 1)
    /\ []((qpc = "done" /\ ~qout.err.isnil /\ ~lastStatus.neterr /\ lastStatus.status <= 299)
             => qout.err.msg \in {"Failed to decode response",
                                  "Failed to create response pagination"})

\* The backend answered a retryable status to every attempt and the
\* failure reached the caller.
C10_Witness ==
    /\ qpc = "done"
    /\ attempts = MaxRetries + 1
    /\ lastStatus.status = 503
    /\ ~qout.err.isnil

\* C12: Query returns results and pagination with no error, or an error
\* with nil results and nil pagination; a transport failure and a
\* non-success status always give an error, the latter carrying the
\* status.
C12_ResultsOrError ==
    qpc = "done" =>
        /\ \/ qout.err.isnil /\ ~qout.results.isnil /\ ~qout.pagination.isnil
           \/ ~qout.err.isnil /\ qout.results.isnil /\ qout.pagination.isnil
        /\ (lastStatus.neterr => ~qout.err.isnil)
        /\ (~lastStatus.neterr /\ lastStatus.status > 299) =>
               (~qout.err.isnil /\ qout.err.status = lastStatus.status)

C12_Witness ==
    /\ qpc = "done"
    /\ lastStatus = Response(404)
    /\ qout.err.msg = "Request failed with response"
    /\ qout.err.status = 404
    /\ qout.results.isnil
    /\ qout.pagination.isnil

\* ============================================ claims: construction
NewReturned == npc = "done"

\* C13: a handle is returned only for ?query-by= absent, "text" or
\* "label", and its mode is the value given, "label" when absent; any
\* other value gives an error and no handle; and a valid value never
\* gives the query-by error.
C13_QueryByMode ==
    NewReturned =>
        LET q     == nopts.query_by
            valid == q \in {"", "text", "label"}
        IN  /\ nhandle.isnil <=> nerr # ""
            /\ ~nhandle.isnil =>
                   (valid /\ nhandle.query_by = (IF q = "" THEN "label" ELSE q))
            /\ ~valid => (nhandle.isnil /\ nerr # "")
            /\ valid => nerr # "Invalid ?search-by= parameter"

C13_Witness ==
    /\ NewReturned
    /\ nopts.query_by = "text"
    /\ ~nhandle.isnil
    /\ nhandle.query_by = "text"

\* C14: with create-index set, an index-creation call that fails, on the
\* transport or by an error response of the backend, gives an error and
\* no handle; with create-index not set, no such call is issued.
C14_CreateIndexFailureAborts ==
    NewReturned =>
        /\ (ncreateCalls > 0 /\ (ncreateRsp.neterr \/ ncreateRsp.status > 299)) =>
               (nhandle.isnil /\ nerr # "")
        /\ (nerr = "" /\ ~nlocal.create_index) => ncreateCalls = 0

\* C19: a returned handle has a positive workers value, 10 when the
\* option is absent; a value that is no number, zero or negative gives an
\* error and no handle.
C19_WorkersPositive ==
    NewReturned =>
        /\ ~nhandle.isnil =>
               /\ nhandle.workers > 0
               /\ nopts.workers = << >> => nhandle.workers = 10
        /\ (nopts.workers # << >> /\ (~Atoi(nopts.workers).ok \/ Atoi(nopts.workers).val <= 0))
               => (nhandle.isnil /\ nerr # "")

\* ================================================ claims: shared backoff
\* C15: for every request made through the handle, concurrent ones
\* included, the k-th backoff delay is drawn from the interval grown k-1
\* times from the initial one: it starts from the initial interval and
\* the attempts of another request do not change it.
C15_BackoffPerRequest ==
    \A r \in Reqs : treq[r].delay # -1 => treq[r].delay = treq[r].i - 1

\* C16: once the handle is built, no step of a request made through it
\* writes state the handle owns: the query mode and the backoff attached
\* to its client stay as construction left them.
C16_HandleNotWritten == [][UNCHANGED <<query_by, retryLevel>>]_vars

====
